---- MODULE Spec2Model ----
(***************************************************************************)
(* Model of server.js: the feedback table, POST /api/feedback and          *)
(* GET /api/stats.                                                         *)
(*                                                                         *)
(* JavaScript strings are sequences of one-character strings, so that      *)
(* trim(), split("-"), Number() and the text comparison of created_at are  *)
(* computed and not assumed.  Averages are exact rationals [num, den].     *)
(* The optional suggestion/comment columns are never read by any handler   *)
(* and are left out of the rows.                                           *)
(***************************************************************************)
EXTENDS Integers, Sequences, FiniteSets, TLC

VARIABLES store,   \* rows of table feedback, in rowid order
          now,     \* the server clock: index into Instants
          slot     \* per client: the request in flight or answered, and its response

vars == <<store, now, slot>>

-----------------------------------------------------------------------------
(* JavaScript values *)

Undefined == [t |-> "undefined"]
Null      == [t |-> "null"]
NaN       == [t |-> "nan"]
Str(s)    == [t |-> "string", s |-> s]
Num(n)    == [t |-> "number", n |-> n]

IsStr(v) == v.t = "string"

RECURSIVE TrimStart(_)
TrimStart(s) == IF Len(s) > 0 /\ Head(s) = " " THEN TrimStart(Tail(s)) ELSE s

RECURSIVE TrimEnd(_)
TrimEnd(s) == IF Len(s) > 0 /\ s[Len(s)] = " " THEN TrimEnd(SubSeq(s, 1, Len(s) - 1)) ELSE s

\* String.prototype.trim
trim(s) == TrimEnd(TrimStart(s))

DigitChars == <<"0", "1", "2", "3", "4", "5", "6", "7", "8", "9">>

IsDigit(ch) == \E i \in 1..10 : DigitChars[i] = ch

DigitVal(ch) == (CHOOSE i \in 1..10 : DigitChars[i] = ch) - 1

RECURSIVE DecimalValue(_)
DecimalValue(s) == IF Len(s) = 0 THEN 0
                   ELSE 10 * DecimalValue(SubSeq(s, 1, Len(s) - 1)) + DigitVal(s[Len(s)])

\* Number(string): blank is 0, a run of decimal digits is its value, any
\* other text over the alphabet it is applied to here (digits, " ", letters) is NaN.
StringToNumber(s) ==
    LET u == trim(s) IN
    IF Len(u) = 0 THEN Num(0)
    ELSE IF \A i \in 1..Len(u) : IsDigit(u[i]) THEN Num(DecimalValue(u))
    ELSE NaN

\* Number(v)
Number(v) ==
    CASE v.t = "number"    -> v
      [] v.t = "nan"       -> NaN
      [] v.t = "null"      -> Num(0)
      [] v.t = "undefined" -> NaN
      [] v.t = "string"    -> StringToNumber(v.s)

\* !v
Falsy(v) ==
    \/ v.t \in {"undefined", "null", "nan"}
    \/ v.t = "string" /\ Len(v.s) = 0
    \/ v.t = "number" /\ v.n = 0

-----------------------------------------------------------------------------
(* Dates and ISO text *)

Pad2(n) == <<DigitChars[((n \div 10) % 10) + 1], DigitChars[(n % 10) + 1]>>

Pad4(n) == Pad2(n \div 100) \o Pad2(n % 100)

\* Date.prototype.toISOString for years 0..9999, to the day: "YYYY-MM-DD".
\* The time-of-day suffix is the same text for every instant of the model.
toISOString(d) == Pad4(d.year) \o <<"-">> \o Pad2(d.month) \o <<"-">> \o Pad2(d.day)

\* Date.UTC(y, monthIndex, 1): NaN arguments give an invalid date, years
\* 0..99 mean 1900..1999, and the month index carries into the year.
DateUTC(y, mi) ==
    IF y.t # "number" \/ mi.t # "number" THEN [valid |-> FALSE]
    ELSE LET yy    == IF y.n >= 0 /\ y.n <= 99 THEN 1900 + y.n ELSE y.n
             total == yy * 12 + mi.n
         IN [valid |-> TRUE, year |-> total \div 12, month |-> (total % 12) + 1, day |-> 1]

\* x - 1 and x + 0 on a Number() result
Minus1(x) == IF x.t = "number" THEN Num(x.n - 1) ELSE NaN

\* the code unit of a character of the ISO alphabet
CharCode(ch) == IF ch = "-" THEN 45 ELSE 48 + DigitVal(ch)

\* SQLite's BINARY collation on TEXT: a < b
RECURSIVE TextLess(_, _)
TextLess(a, b) ==
    IF Len(b) = 0 THEN FALSE
    ELSE IF Len(a) = 0 THEN TRUE
    ELSE IF CharCode(Head(a)) # CharCode(Head(b)) THEN CharCode(Head(a)) < CharCode(Head(b))
    ELSE TextLess(Tail(a), Tail(b))

\* String.prototype.split("-")
RECURSIVE Split(_)
Split(s) ==
    IF \A i \in 1..Len(s) : s[i] # "-" THEN <<s>>
    ELSE LET k == CHOOSE i \in 1..Len(s) : s[i] = "-" /\ \A j \in 1..(i - 1) : s[j] # "-"
         IN <<SubSeq(s, 1, k - 1)>> \o Split(SubSeq(s, k + 1, Len(s)))

monthRange(yyyyMm) ==
    LET parts == Split(yyyyMm)
        y     == StringToNumber(parts[1])
        m     == IF Len(parts) >= 2 THEN StringToNumber(parts[2]) ELSE NaN
        start == DateUTC(y, Minus1(m))
        end   == DateUTC(y, m)
    IN IF start.valid /\ end.valid
       THEN [throws |-> FALSE, start |-> toISOString(start), end |-> toISOString(end)]
       ELSE [throws |-> TRUE]

-----------------------------------------------------------------------------
(* The feedback table *)

\* UNIQUE(client_name, project), BINARY collation on the stored text
UniqueViolation_NoConstraint(st, client_name, project) == FALSE

UniqueViolation(st, client_name, project) ==
    \E i \in 1..Len(st) : st[i].client_name = client_name /\ st[i].project = project

Ratings == <<"reactivity", "deadlines", "deliverables", "professionalism">>

\* NaN binds as NULL, and every rating column is NOT NULL
NotNullViolation(args) == \E i \in 1..4 : args[Ratings[i]].t # "number"

ErrUnique  == "UNIQUE constraint failed: feedback.client_name, feedback.project"
ErrNotNull == "NOT NULL constraint failed"
ErrType    == "trim is not a function"

\* the row INSERT appends: id is the next rowid of a table nothing is deleted from
NewRow(st, args) ==
    [id              |-> Len(st) + 1,
     created_at      |-> args.created_at,
     email           |-> args.email,
     client_name     |-> args.client_name,
     project         |-> args.project,
     reactivity      |-> args.reactivity.n,
     deadlines       |-> args.deadlines.n,
     deliverables    |-> args.deliverables.n,
     professionalism |-> args.professionalism.n]

InsertRow_ReuseRowid(st, args) ==
    IF Len(st) = 0 THEN <<NewRow(st, args)>>
    ELSE [st EXCEPT ![Len(st)] = [NewRow(st, args) EXCEPT !.id = Len(st)]]

InsertRow(st, args) == Append(st, NewRow(st, args))

StmtRun_OrIgnore(st, args) ==
    IF NotNullViolation(args) THEN [throws |-> TRUE, message |-> ErrNotNull, store |-> st]
    ELSE IF UniqueViolation(st, args.client_name, args.project)
         THEN [throws |-> FALSE, message |-> "", store |-> st]
    ELSE [throws |-> FALSE, message |-> "", store |-> InsertRow(st, args)]

\* stmt.run(...): the row is checked NOT NULL first, then UNIQUE, then stored
StmtRun(st, args) ==
    IF NotNullViolation(args) THEN [throws |-> TRUE, message |-> ErrNotNull, store |-> st]
    ELSE IF UniqueViolation(st, args.client_name, args.project)
         THEN [throws |-> TRUE, message |-> ErrUnique, store |-> st]
    ELSE [throws |-> FALSE, message |-> "", store |-> InsertRow(st, args)]

-----------------------------------------------------------------------------
(* POST /api/feedback *)

required == <<"email", "client_name", "project", "reactivity", "deadlines",
              "deliverables", "professionalism">>

\* body[k] === undefined || body[k] === null || body[k] === ""
IsMissing(v) == v.t = "undefined" \/ v.t = "null" \/ (v.t = "string" /\ Len(v.s) = 0)

\* the first required key the loop rejects, or 0
FirstMissing(body) ==
    IF \E i \in 1..Len(required) : IsMissing(body[required[i]])
    THEN CHOOSE i \in 1..Len(required) :
            /\ IsMissing(body[required[i]])
            /\ \A j \in 1..(i - 1) : ~IsMissing(body[required[j]])
    ELSE 0

\* String(e.message).includes("UNIQUE")
IncludesUNIQUE_Never(message) == FALSE

IncludesUNIQUE(message) == message = ErrUnique

\* the catch block
CatchStatus(message) == IF IncludesUNIQUE(message) THEN 409 ELSE 500

\* the arguments of stmt.run; evaluating them throws when x.trim is no function
RunArgs(t, body) ==
    [created_at      |-> toISOString(t),
     email           |-> trim(body.email.s),
     client_name     |-> trim(body.client_name.s),
     project         |-> trim(body.project.s),
     reactivity      |-> Number(body.reactivity),
     deadlines       |-> Number(body.deadlines),
     deliverables    |-> Number(body.deliverables),
     professionalism |-> Number(body.professionalism)]

\* the whole handler: [store, resp]
PostFeedback(st, t, body) ==
    IF FirstMissing(body) # 0
    THEN [store |-> st,
          resp  |-> [status |-> 400, error |-> "Missing field", field |-> required[FirstMissing(body)]]]
    ELSE IF ~(IsStr(body.email) /\ IsStr(body.client_name) /\ IsStr(body.project))
    THEN [store |-> st, resp |-> [status |-> CatchStatus(ErrType), error |-> "Erreur serveur."]]
    ELSE LET r == StmtRun(st, RunArgs(t, body)) IN
         IF r.throws
         THEN [store |-> st,
               resp  |-> IF CatchStatus(r.message) = 409
                         THEN [status |-> 409, error |-> "Ce client a deja note ce projet. Merci de choisir un autre projet."]
                         ELSE [status |-> 500, error |-> "Erreur serveur."]]
         ELSE [store |-> r.store, resp |-> [status |-> 200, ok |-> TRUE]]

-----------------------------------------------------------------------------
(* GET /api/stats *)

\* WHERE created_at >= ? AND created_at < ?
InRange_Inclusive(created_at, start, end) ==
    ~TextLess(created_at, start) /\ ~TextLess(end, created_at)

InRange(created_at, start, end) ==
    ~TextLess(created_at, start) /\ TextLess(created_at, end)

Selected(st, start, end) == SelectSeq(st, LAMBDA r : InRange(r.created_at, start, end))

RECURSIVE SumOf(_, _)
SumOf(rows, col) == IF Len(rows) = 0 THEN 0 ELSE Head(rows)[col] + SumOf(Tail(rows), col)

\* AVG(col) over a group, as the exact rational sum / count
AVG(rows, col) == [num |-> SumOf(rows, col), den |-> Len(rows)]

RowTotal(r) == r.reactivity + r.deadlines + r.deliverables + r.professionalism

RECURSIVE SumTotals(_)
SumTotals(rows) == IF Len(rows) = 0 THEN 0 ELSE RowTotal(Head(rows)) + SumTotals(Tail(rows))

RECURSIVE SumTotalsDiv4(_)
SumTotalsDiv4(rows) ==
    IF Len(rows) = 0 THEN 0 ELSE (RowTotal(Head(rows)) \div 4) + SumTotalsDiv4(Tail(rows))

AvgTotal_IntegerDivision(rows) == [num |-> SumTotalsDiv4(rows), den |-> Len(rows)]

\* AVG((reactivity+deadlines+deliverables+professionalism)/4.0)
AvgTotal(rows) == [num |-> SumTotals(rows), den |-> 4 * Len(rows)]

\* a < b on rationals with positive denominators
RatLess(a, b) == a.num * b.den < b.num * a.den

\* one row of GROUP BY project
GroupRow(sel, p) ==
    LET g == SelectSeq(sel, LAMBDA r : r.project = p) IN
    [project             |-> p,
     responses           |-> Len(g),
     avg_reactivity      |-> AVG(g, "reactivity"),
     avg_deadlines       |-> AVG(g, "deadlines"),
     avg_deliverables    |-> AVG(g, "deliverables"),
     avg_professionalism |-> AVG(g, "professionalism"),
     avg_total           |-> AvgTotal(g)]

Groups(sel) == {GroupRow(sel, sel[i].project) : i \in 1..Len(sel)}

Arrangements(G) ==
    LET n == Cardinality(G) IN
    {f \in [1..n -> G] : \A i, j \in 1..n : i # j => f[i] # f[j]}

OrderByAvgTotal_Desc(G) ==
    {f \in Arrangements(G) :
        \A i \in 1..(Len(f) - 1) : ~RatLess(f[i].avg_total, f[i + 1].avg_total)}

\* ORDER BY avg_total ASC: every arrangement the sort may return (ties in any order)
OrderByAvgTotal(G) ==
    {f \in Arrangements(G) :
        \A i \in 1..(Len(f) - 1) : ~RatLess(f[i + 1].avg_total, f[i].avg_total)}

\* the result sets .all(start, end) may return
Query(st, start, end) == OrderByAvgTotal(Groups(Selected(st, start, end)))

threshold == 4

BelowThreshold_OrEqual(avg) == avg.num <= threshold * avg.den

\* r.avg_x < threshold
BelowThreshold(avg) == avg.num < threshold * avg.den

\* the four fixed strings, accents written as plain letters
RecReactivity      == "Reactivite: definir SLA (ex: reponse < 24h), point hebdo, canal unique."
RecDeadlines       == "Delais: jalons, buffer, suivi regulier, gestion risques."
RecDeliverables    == "Livrables: checklist qualite, revue interne, templates."
RecProfessionalism == "Pro/Innovation: REX mensuel, formation, partage bonnes pratiques."

\* the list a of one loop iteration
Recommendations(r) ==
    (IF BelowThreshold(r.avg_reactivity) THEN <<RecReactivity>> ELSE <<>>)
    \o (IF BelowThreshold(r.avg_deadlines) THEN <<RecDeadlines>> ELSE <<>>)
    \o (IF BelowThreshold(r.avg_deliverables) THEN <<RecDeliverables>> ELSE <<>>)
    \o (IF BelowThreshold(r.avg_professionalism) THEN <<RecProfessionalism>> ELSE <<>>)

\* the loop building actions
RECURSIVE ActionPlan(_)
ActionPlan(rows) ==
    IF Len(rows) = 0 THEN <<>>
    ELSE LET a == Recommendations(Head(rows)) IN
         (IF Len(a) > 0 THEN <<[project |-> Head(rows).project, recommendations |-> a]>>
          ELSE <<>>) \o ActionPlan(Tail(rows))

\* the whole handler: the responses it may send.  monthRange throwing is not
\* caught by the handler, so the request ends in the framework's 500.
GetStats(st, month) ==
    IF Falsy(month) THEN {[status |-> 400, error |-> "month is required, e.g. 2026-01"]}
    ELSE LET range == monthRange(month.s) IN
         IF range.throws THEN {[status |-> 500, unhandled |-> "RangeError: Invalid time value"]}
         ELSE {[status      |-> 200,
                month       |-> month.s,
                start       |-> range.start,
                end         |-> range.end,
                projects    |-> rows,
                action_plan |-> ActionPlan(rows)] : rows \in Query(st, range.start, range.end)}

-----------------------------------------------------------------------------
(* Requests *)

MaxRecords == 2
NClients   == 2

\* the instants the clock passes through, one new Date() each
Instants == <<[year |-> 2025, month |-> 12, day |-> 31],
              [year |-> 2026, month |-> 1,  day |-> 1],
              [year |-> 2026, month |-> 2,  day |-> 1]>>

Base == [email           |-> Str(<<"e">>),
         client_name     |-> Str(<<"A">>),
         project         |-> Str(<<"P">>),
         reactivity      |-> Num(3),
         deadlines       |-> Num(5),
         deliverables    |-> Num(5),
         professionalism |-> Num(4)]

Names    == {<<"A">>, <<"B">>}
Projects == {<<"P">>, <<"Q">>}
Profiles == {<<3, 5, 5, 4>>, <<5, 5, 5, 5>>}

WithRatings(b, q) == [b EXCEPT !.reactivity = Num(q[1]), !.deadlines = Num(q[2]),
                               !.deliverables = Num(q[3]), !.professionalism = Num(q[4])]

ValidBodies ==
    {WithRatings([Base EXCEPT !.client_name = Str(n), !.project = Str(p)], q) :
        n \in Names, p \in Projects, q \in Profiles}

\* a required field absent, null or empty
MissingBodies ==
    {[Base EXCEPT ![required[i]] = v] : i \in 1..Len(required), v \in {Undefined, Null, Str(<<>>)}}

\* a required field of white space only
BlankBodies ==
    {[Base EXCEPT ![k] = Str(<<" ">>)] : k \in {"email", "client_name", "project", "reactivity"}}

OtherBodies ==
    {[Base EXCEPT !.client_name = Str(<<" ", "A", " ">>)],
     [Base EXCEPT !.reactivity = Str(<<"5">>)],
     [Base EXCEPT !.deadlines = Str(<<"a">>)],
     [Base EXCEPT !.email = Num(7)]}

Bodies == ValidBodies \cup MissingBodies \cup BlankBodies \cup OtherBodies

Months ==
    {Undefined,
     Str(<<>>),
     Str(<<"2", "0", "2", "5", "-", "1", "2">>),
     Str(<<"2", "0", "2", "6", "-", "0", "1">>),
     Str(<<"2", "0", "2", "6", "-", "0", "2">>),
     Str(<<"2", "0", "2", "6", "0", "1">>),
     Str(<<"a", "b", "-", "c", "d">>),
     Str(<<"2", "0", "2", "6", "-">>)}

\* submissions racing for one pair, written with and without padding
ConcBodies ==
    {[Base EXCEPT !.client_name = Str(n), !.project = Str(p)] :
        n \in {<<"A">>, <<"A", " ">>}, p \in Projects}

-----------------------------------------------------------------------------
(* The server *)

Idle   == [op |-> "idle"]
NoResp == [status |-> 0]

InFlight(c) == slot[c].op # "idle" /\ slot[c].resp = NoResp
Answered(c) == slot[c].op # "idle" /\ slot[c].resp # NoResp

Init == /\ store = <<>>
        /\ now = 1
        /\ slot = [c \in 1..1 |-> Idle]

InitConc == /\ store = <<>>
            /\ now = 1
            /\ slot = [c \in 1..NClients |-> Idle]

\* time passes between requests
Tick == /\ now < Len(Instants)
        /\ now' = now + 1
        /\ UNCHANGED <<store, slot>>

\* express.json() has parsed a POST /api/feedback body; the handler is queued
SendFeedback(c, body) ==
    /\ slot[c] = Idle
    /\ slot' = [slot EXCEPT ![c] = [op |-> "feedback", body |-> body, resp |-> NoResp]]
    /\ UNCHANGED <<store, now>>

\* a GET /api/stats request has arrived; the handler is queued
SendStats(c, month) ==
    /\ slot[c] = Idle
    /\ slot' = [slot EXCEPT ![c] = [op |-> "stats", month |-> month, resp |-> NoResp]]
    /\ UNCHANGED <<store, now>>

\* the response has been delivered; the client may send its next request
Receive(c) ==
    /\ Answered(c)
    /\ slot' = [slot EXCEPT ![c] = Idle]
    /\ UNCHANGED <<store, now>>

\* app.post("/api/feedback", ...) runs to completion: the handler is synchronous
HandleFeedback(c) ==
    /\ InFlight(c)
    /\ slot[c].op = "feedback"
    /\ LET r == PostFeedback(store, Instants[now], slot[c].body) IN
         /\ Len(r.store) <= MaxRecords
         /\ store' = r.store
         /\ slot' = [slot EXCEPT ![c].resp = r.resp]
    /\ UNCHANGED now

\* app.get("/api/stats", ...) runs to completion
HandleStats(c) ==
    /\ InFlight(c)
    /\ slot[c].op = "stats"
    /\ \E resp \in GetStats(store, slot[c].month) :
         slot' = [slot EXCEPT ![c].resp = resp]
    /\ UNCHANGED <<store, now>>

Next ==
    \/ Tick
    \/ \E c \in DOMAIN slot, body \in Bodies : SendFeedback(c, body)
    \/ \E c \in DOMAIN slot, month \in Months : SendStats(c, month)
    \/ \E c \in DOMAIN slot : HandleFeedback(c)
    \/ \E c \in DOMAIN slot : HandleStats(c)
    \/ \E c \in DOMAIN slot : Receive(c)

Spec == Init /\ [][Next]_vars

NextConc ==
    \/ Tick
    \/ \E c \in DOMAIN slot, body \in ConcBodies : SendFeedback(c, body)
    \/ \E c \in DOMAIN slot : HandleFeedback(c)

SpecConc == InitConc /\ [][NextConc]_vars

-----------------------------------------------------------------------------
(* Vocabulary of the properties *)

Clients == DOMAIN slot

AnsweredFeedback(c) == Answered(c) /\ slot[c].op = "feedback"
AnsweredStats(c)    == Answered(c) /\ slot[c].op = "stats"
Report(c)           == AnsweredStats(c) /\ slot[c].resp.status = 200

TextFields == {"email", "client_name", "project"}

\* a field the contract calls missing: absent, null, or empty once trimmed
Blank(v) == v.t \in {"undefined", "null"} \/ (v.t = "string" /\ Len(trim(v.s)) = 0)

\* a submission nothing is wrong with
WellFormed(body) ==
    /\ \A k \in TextFields : body[k].t = "string" /\ Len(trim(body[k].s)) > 0
    /\ \A i \in 1..4 : body[Ratings[i]].t = "number"
                       \/ (body[Ratings[i]].t = "string" /\ ~Blank(body[Ratings[i]])
                           /\ \A j \in 1..Len(body[Ratings[i]].s) : IsDigit(body[Ratings[i]].s[j]))

PairOf(body) == <<trim(body.client_name.s), trim(body.project.s)>>

RowsWithPair(st, k) == {i \in 1..Len(st) : st[i].client_name = k[1] /\ st[i].project = k[2]}

\* YYYY-MM with a month of 1..12
ValidMonth(v) ==
    /\ v.t = "string"
    /\ Len(v.s) = 7
    /\ v.s[5] = "-"
    /\ \A i \in {1, 2, 3, 4, 6, 7} : IsDigit(v.s[i])
    /\ DecimalValue(SubSeq(v.s, 6, 7)) \in 1..12

\* a calendar day as a number that orders like the calendar
DayNumber(y, m, d) == (y * 100 + m) * 100 + d

TextDay(text) == DayNumber(DecimalValue(SubSeq(text, 1, 4)), DecimalValue(SubSeq(text, 6, 7)),
                           DecimalValue(SubSeq(text, 9, 10)))

MonthStart(s) == DayNumber(DecimalValue(SubSeq(s, 1, 4)), DecimalValue(SubSeq(s, 6, 7)), 1)

NextMonthStart(s) ==
    LET y == DecimalValue(SubSeq(s, 1, 4))
        m == DecimalValue(SubSeq(s, 6, 7))
    IN IF m = 12 THEN DayNumber(y + 1, 1, 1) ELSE DayNumber(y, m + 1, 1)

\* the stored rows of project p created in month s
RowsOfMonth(st, s, p) ==
    {i \in 1..Len(st) : /\ st[i].project = p
                        /\ MonthStart(s) <= TextDay(st[i].created_at)
                        /\ TextDay(st[i].created_at) < NextMonthStart(s)}

Listed(rows, p) == {i \in 1..Len(rows) : rows[i].project = p}

\* (a1 + a2 + a3 + a4) / 4 = t on exact rationals
IsMeanOfFour(t, a1, a2, a3, a4) ==
    t.num * (4 * a1.den * a2.den * a3.den * a4.den)
      = t.den * (  a1.num * a2.den * a3.den * a4.den
                 + a2.num * a1.den * a3.den * a4.den
                 + a3.num * a1.den * a2.den * a4.den
                 + a4.num * a1.den * a2.den * a3.den)

Under4(a) == 4 * a.den > a.num

\* the recommendations the rules call for, in the order of the dimensions
Expected(r) ==
    LET all == <<<<r.avg_reactivity, RecReactivity>>, <<r.avg_deadlines, RecDeadlines>>,
                 <<r.avg_deliverables, RecDeliverables>>,
                 <<r.avg_professionalism, RecProfessionalism>>>>
        fail == SelectSeq(all, LAMBDA x : Under4(x[1]))
    IN [i \in 1..Len(fail) |-> fail[i][2]]

-----------------------------------------------------------------------------
(* Properties *)

\* C1: no two stored feedback records have the same (client_name, project)
\* pair, compared on the stored (trimmed) values, whatever submissions were made.
C1_UniquePair ==
    \A i, j \in 1..Len(store) :
        i # j => ~(store[i].client_name = store[j].client_name
                   /\ store[i].project = store[j].project)

C1_Witness ==
    /\ Len(store) >= 2
    /\ \E c \in Clients : AnsweredFeedback(c) /\ slot[c].resp.status = 409

\* C2: a well-formed submission whose (client_name, project) pair is already
\* stored is answered 409, leaves the store as it was, and exactly one record
\* of the pair persists.
C2_DuplicateRejected ==
    [][\A c \in Clients :
          (/\ InFlight(c)
           /\ slot[c].op = "feedback"
           /\ slot'[c].resp # NoResp
           /\ WellFormed(slot[c].body)
           /\ RowsWithPair(store, PairOf(slot[c].body)) # {})
          => (/\ slot'[c].resp.status = 409
              /\ store' = store
              /\ Cardinality(RowsWithPair(store', PairOf(slot[c].body))) = 1)]_vars

C2_Witness ==
    \E c \in Clients :
        /\ AnsweredFeedback(c)
        /\ WellFormed(slot[c].body)
        /\ slot[c].resp.status = 409
        /\ slot[c].body.client_name.s # trim(slot[c].body.client_name.s)
        /\ Cardinality(RowsWithPair(store, PairOf(slot[c].body))) = 1

\* C3: a submission with any of the seven required fields absent, null or
\* empty after trimming is answered 400, and no record with an empty email,
\* client_name or project is ever stored.
C3_BlankRejected ==
    /\ \A c \in Clients :
          (AnsweredFeedback(c) /\ \E i \in 1..Len(required) : Blank(slot[c].body[required[i]]))
          => slot[c].resp.status = 400
    /\ \A i \in 1..Len(store) :
          Len(store[i].email) > 0 /\ Len(store[i].client_name) > 0 /\ Len(store[i].project) > 0

\* C4: a stats request whose month is absent or is no year-month is answered
\* 400 with an error body, never a report and never another error.
C4_InvalidMonthRejected ==
    \A c \in Clients :
        (AnsweredStats(c) /\ ~ValidMonth(slot[c].month))
        => (slot[c].resp.status = 400 /\ "error" \in DOMAIN slot[c].resp)

\* C5: for a valid month M the report lists project P exactly when some stored
\* record of P was created in [start of M, start of the month after M), once,
\* with responses equal to the number of those records; a month without
\* records has empty projects and action_plan.
C5_MonthSelection ==
    \A c \in Clients :
        (Report(c) /\ ValidMonth(slot[c].month))
        => LET rows == slot[c].resp.projects
               M    == slot[c].month.s
           IN /\ \A p \in {store[i].project : i \in 1..Len(store)}
                          \cup {rows[i].project : i \in 1..Len(rows)} :
                    /\ (Listed(rows, p) # {}) <=> (RowsOfMonth(store, M, p) # {})
                    /\ Cardinality(Listed(rows, p)) <= 1
                    /\ \A i \in Listed(rows, p) :
                          rows[i].responses = Cardinality(RowsOfMonth(store, M, p))
              /\ (\A i \in 1..Len(store) : RowsOfMonth(store, M, store[i].project) = {})
                    => (rows = <<>> /\ slot[c].resp.action_plan = <<>>)

C5_Witness ==
    \E c \in Clients :
        /\ Report(c)
        /\ slot[c].month = Str(<<"2", "0", "2", "5", "-", "1", "2">>)
        /\ Len(slot[c].resp.projects) = 1
        /\ \E i \in 1..Len(store) : TextDay(store[i].created_at) = DayNumber(2026, 1, 1)

\* C6: each project's avg_total is the mean of its four reported dimension averages.
C6_AvgTotalIsMean ==
    \A c \in Clients :
        Report(c)
        => \A i \in 1..Len(slot[c].resp.projects) :
              LET r == slot[c].resp.projects[i] IN
              IsMeanOfFour(r.avg_total, r.avg_reactivity, r.avg_deadlines,
                           r.avg_deliverables, r.avg_professionalism)

C6_Witness ==
    \E c \in Clients :
        /\ Report(c)
        /\ \E i \in 1..Len(slot[c].resp.projects) :
              LET r == slot[c].resp.projects[i] IN
              /\ r.responses = 2
              /\ r.avg_reactivity.num * 2 # r.avg_deadlines.num * 2
              /\ r.avg_total.num % 4 # 0

\* C7: the action plan has an entry for a listed project exactly when one of
\* its four dimension averages is strictly below 4.0, and the entry holds the
\* fixed strings of the failing dimensions, one each; 4.0 itself triggers none.
C7_ActionPlanRules ==
    \A c \in Clients :
        Report(c)
        => LET rows == slot[c].resp.projects
               plan == slot[c].resp.action_plan
           IN /\ \A i \in 1..Len(rows) :
                    LET entries == {j \in 1..Len(plan) : plan[j].project = rows[i].project} IN
                    /\ (entries # {}) <=> (Len(Expected(rows[i])) > 0)
                    /\ Cardinality(entries) <= 1
                    /\ \A j \in entries : plan[j].recommendations = Expected(rows[i])
              /\ \A j \in 1..Len(plan) : Listed(rows, plan[j].project) # {}

C7_Witness ==
    \E c \in Clients :
        /\ Report(c)
        /\ Len(slot[c].resp.projects) = 2
        /\ Len(slot[c].resp.action_plan) = 1
        /\ \E i \in 1..2 :
              LET r == slot[c].resp.projects[i] IN
              /\ r.avg_professionalism.num = 4 * r.avg_professionalism.den
              /\ r.avg_reactivity.num < 4 * r.avg_reactivity.den
              /\ slot[c].resp.action_plan[1].project = r.project
              /\ slot[c].resp.action_plan[1].recommendations = <<RecReactivity>>

\* C8: a stored record stays, with the same field values, in every later
\* state, and a stats request leaves the whole store unchanged.
C8_RecordsImmutable ==
    [][/\ Len(store') >= Len(store)
       /\ \A i \in 1..Len(store) : store'[i] = store[i]
       /\ (\E c \in Clients : slot[c].op = "stats" /\ slot'[c] # slot[c]) => store' = store]_vars

C8_Witness ==
    /\ Len(store) >= 2
    /\ \E c \in Clients : AnsweredFeedback(c) /\ slot[c].resp.status = 500

\* C9: the projects list is in non-decreasing order of avg_total, and the
\* action_plan entries are in the relative order of their projects in it.
C9_Ascending ==
    \A c \in Clients :
        Report(c)
        => LET rows == slot[c].resp.projects
               plan == slot[c].resp.action_plan
           IN /\ \A i \in 1..(Len(rows) - 1) :
                    rows[i].avg_total.num * rows[i + 1].avg_total.den
                       <= rows[i + 1].avg_total.num * rows[i].avg_total.den
              /\ \A i, j \in 1..Len(plan) :
                    i < j => \E a, b \in 1..Len(rows) :
                                /\ a < b
                                /\ rows[a].project = plan[i].project
                                /\ rows[b].project = plan[j].project

C9_Witness ==
    \E c \in Clients :
        /\ Report(c)
        /\ Len(slot[c].resp.projects) = 2
        /\ Len(slot[c].resp.action_plan) = 2
        /\ slot[c].resp.projects[1].avg_total.num * slot[c].resp.projects[2].avg_total.den
              < slot[c].resp.projects[2].avg_total.num * slot[c].resp.projects[1].avg_total.den

\* C10: of the well-formed submissions in flight together for one pair that
\* was not stored, exactly one is answered 200 and creates the record, every
\* other one is answered 409, whatever order the handlers run in.
C10_OneWinner ==
    \A k \in {PairOf(slot[c].body) : c \in Clients \ {c \in Clients : slot[c] = Idle}} :
        LET G    == {c \in Clients : slot[c] # Idle /\ PairOf(slot[c].body) = k}
            done == {c \in G : Answered(c)}
            won  == {c \in done : slot[c].resp.status = 200}
        IN /\ Cardinality(RowsWithPair(store, k)) = (IF done = {} THEN 0 ELSE 1)
           /\ done # {} => Cardinality(won) = 1
           /\ \A c \in done \ won : slot[c].resp.status = 409

C10_Witness ==
    \E c, d \in Clients :
        /\ c # d
        /\ Answered(c) /\ Answered(d)
        /\ PairOf(slot[c].body) = PairOf(slot[d].body)
        /\ slot[c].body # slot[d].body
        /\ slot[c].resp.status = 200
        /\ slot[d].resp.status = 409

====
